---- MODULE Spec2Model ----
(***************************************************************************)
(* Model of the data_downloader clients:                                   *)
(*   PriceHistoryNASDAQ, DolarPrices, PriceHistoryYF                       *)
(*       (src/code/python/data_downloader/data_client.py)                  *)
(*   PriceHistory       (src/data_downloader/data_client.py)               *)
(*                                                                         *)
(* Strings that the code parses or formats (prices, volumes, dates) are    *)
(* sequences of one-character strings; URLs and symbols are plain strings. *)
(***************************************************************************)
EXTENDS Integers, Sequences, FiniteSets, TLC

VARIABLES
    cls,               \* the class being instantiated / called
    symbols,           \* self._symbols
    today,             \* datetime.now().date()
    upstream,          \* what the quote endpoint answers, per symbol
    pc,                \* position: "new", "loop", "frame", "done", "raised", "call", "returned"
    phase,             \* "ctor": inside __init__; "call": a later call of _build_data_frame
    idx,               \* position of the for loop over self._symbols
    from_date,         \* local of _build_data_frame
    to_date,           \* local of _build_data_frame
    all_data,          \* local of _build_data_frame
    requests,          \* every HTTP request issued so far, in order
    responses,         \* the response received for each request, in order
    price_data_frame,  \* self.price_data_frame
    assigned,          \* number of assignments made to self.price_data_frame
    exc,               \* the exception that left the constructor, or NoExc
    calls,             \* number of operations called on the constructed instance
    arg,               \* arguments of a directly called function
    ret                \* what the last called operation returned or raised

vars == <<cls, symbols, today, upstream, pc, phase, idx, from_date, to_date,
          all_data, requests, responses, price_data_frame, assigned, exc,
          calls, arg, ret>>

(***************************************************************************)
(* Bounds of the model.                                                    *)
(***************************************************************************)
MaxSymbols == 2      \* longest symbol list
MaxCalls == 1        \* operations called on a constructed instance
MaxStrLen == 4       \* longest field string drawn for the cleanup functions
MaxRecords == 3      \* longest exchange-rate response

(***************************************************************************)
(* Characters and numerals.                                                *)
(***************************************************************************)
Digits == {"0", "1", "2", "3", "4", "5", "6", "7", "8", "9"}

DigitVal(c) ==
    CASE c = "0" -> 0 [] c = "1" -> 1 [] c = "2" -> 2 [] c = "3" -> 3
      [] c = "4" -> 4 [] c = "5" -> 5 [] c = "6" -> 6 [] c = "7" -> 7
      [] c = "8" -> 8 [] c = "9" -> 9

DigitChar(n) == <<"0", "1", "2", "3", "4", "5", "6", "7", "8", "9">>[n + 1]

\* value of a sequence of digit characters, most significant first
RECURSIVE DigitsValue(_)
DigitsValue(s) ==
    IF s = <<>> THEN 0
    ELSE 10 * DigitsValue(SubSeq(s, 1, Len(s) - 1)) + DigitVal(s[Len(s)])

\* n written with exactly w digits, zero padded ('%04d', '%02d')
RECURSIVE ZeroPad(_, _)
ZeroPad(n, w) ==
    IF w = 0 THEN <<>> ELSE Append(ZeroPad(n \div 10, w - 1), DigitChar(n % 10))

Min(a, b) == IF a <= b THEN a ELSE b

(***************************************************************************)
(* Calendar dates: datetime.date, date - date, date.isoformat(),           *)
(* date - relativedelta(months=6), pd.to_datetime.                         *)
(***************************************************************************)
Date(y, m, d) == [y |-> y, m |-> m, d |-> d]

IsLeap(y) == (y % 4 = 0) /\ ((y % 100 # 0) \/ (y % 400 = 0))

DaysInMonth(y, m) ==
    IF m = 2 THEN (IF IsLeap(y) THEN 29 ELSE 28)
    ELSE IF m \in {4, 6, 9, 11} THEN 30 ELSE 31

RECURSIVE DaysBeforeMonth(_, _)
DaysBeforeMonth(y, m) ==
    IF m = 1 THEN 0 ELSE DaysBeforeMonth(y, m - 1) + DaysInMonth(y, m - 1)

DaysBeforeYear(y) ==
    ((y - 1) * 365) + ((y - 1) \div 4) - ((y - 1) \div 100) + ((y - 1) \div 400)

\* date.toordinal()
ToOrdinal(dt) == DaysBeforeYear(dt.y) + DaysBeforeMonth(dt.y, dt.m) + dt.d

\* faulty variant of DaysBetween: every year counted as 365 days
DaysBetween_NoLeap(a, b) ==
    (((a.y - b.y) * 365) + DaysBeforeMonth(2023, a.m) + a.d)
        - (DaysBeforeMonth(2023, b.m) + b.d)

\* (a - b).days
DaysBetween(a, b) == ToOrdinal(a) - ToOrdinal(b)

\* date.isoformat(): 'YYYY-MM-DD'
isoformat(dt) ==
    ZeroPad(dt.y, 4) \o <<"-">> \o ZeroPad(dt.m, 2) \o <<"-">> \o ZeroPad(dt.d, 2)

\* dt - relativedelta(months=n), 0 <= n <= 12: the month moves back n months,
\* the day is clamped to the length of the month reached
MinusMonths(dt, n) ==
    LET m0 == dt.m - n
        yy == IF m0 < 1 THEN dt.y - 1 ELSE dt.y
        mm == IF m0 < 1 THEN m0 + 12 ELSE m0
    IN  Date(yy, mm, Min(dt.d, DaysInMonth(yy, mm)))

\* pd.to_datetime of an ISO 'YYYY-MM-DD' string
ParseISO(s) ==
    Date(DigitsValue(SubSeq(s, 1, 4)), DigitsValue(SubSeq(s, 6, 7)),
         DigitsValue(SubSeq(s, 9, 10)))

\* pd.to_datetime of the quote endpoint's 'MM/DD/YYYY' string
ParseMDY(s) ==
    Date(DigitsValue(SubSeq(s, 7, 10)), DigitsValue(SubSeq(s, 1, 2)),
         DigitsValue(SubSeq(s, 4, 5)))

(***************************************************************************)
(* Field cleanup of _grab_prices: re.sub('[$,]', '', s), s.replace(',',''),*)
(* float(), int().                                                         *)
(***************************************************************************)
\* faulty variant of re_sub: s.replace('$', ''), the ',' separators stay
re_sub_dollar_only(s) == SelectSeq(s, LAMBDA c : c # "$")

\* re.sub('[$,]', '', s)
re_sub(s) == SelectSeq(s, LAMBDA c : c \notin {"$", ","})

\* s.replace(',', '')
replace_comma(s) == SelectSeq(s, LAMBDA c : c # ",")

CountOf(s, ch) == Cardinality({i \in 1..Len(s) : s[i] = ch})

(***************************************************************************)
(* float() and int() of a string. A float is                               *)
(*   [kind |-> "nan"], [kind |-> "inf", neg |-> ...] or                    *)
(*   [kind |-> "finite", neg |-> ..., num |-> n, exp |-> e],               *)
(* the double nearest to n * 10^e, with n not divisible by 10 (0 is n = 0, *)
(* e = 0). Mantissas of up to 9 digits are covered, which is every string  *)
(* the model draws; two such decimals denote the same double only when     *)
(* they are equal, except below 2.3e-308, where doubles are sparser and    *)
(* the decimal is kept as written. nan is one value here although Python's *)
(* nan differs from itself. Both functions strip the ASCII whitespace and  *)
(* the Unicode spaces, and read the decimal digits of every script; of     *)
(* these characters the model holds all that a string of this notation can *)
(* hold, the others (U+2000..U+200A, U+2028, U+2029, U+202F, U+205F,       *)
(* U+3000 and the digits of the remaining scripts) occur in no string.     *)
(***************************************************************************)
\* space, \t, \n, \r, \f, vertical tab U+000B, next line U+0085, no-break
\* space U+00A0, ogham space mark U+1680
Whitespace == {" ", "\t", "\n", "\r", "\f", "", "", " ", " "}

\* the decimal digits 0..9 of the other scripts, a script per row: U+06F0,
\* U+07C0, U+09E6, U+0AE6, U+0BE6, U+0CE6, U+0DE6, U+0ED0, U+1090, U+17E0,
\* U+19D0, U+1A80, U+1A90, U+1BB0, U+A8D0, U+A9D0, U+A9F0, U+ABF0
UnicodeDigits ==
    <<<<"۰", "۱", "۲", "۳", "۴", "۵", "۶", "۷", "۸", "۹">>,
      <<"߀", "߁", "߂", "߃", "߄", "߅", "߆", "߇", "߈", "߉">>,
      <<"০", "১", "২", "৩", "৪", "৫", "৬", "৭", "৮", "৯">>,
      <<"૦", "૧", "૨", "૩", "૪", "૫", "૬", "૭", "૮", "૯">>,
      <<"௦", "௧", "௨", "௩", "௪", "௫", "௬", "௭", "௮", "௯">>,
      <<"೦", "೧", "೨", "೩", "೪", "೫", "೬", "೭", "೮", "೯">>,
      <<"෦", "෧", "෨", "෩", "෪", "෫", "෬", "෭", "෮", "෯">>,
      <<"໐", "໑", "໒", "໓", "໔", "໕", "໖", "໗", "໘", "໙">>,
      <<"႐", "႑", "႒", "႓", "႔", "႕", "႖", "႗", "႘", "႙">>,
      <<"០", "១", "២", "៣", "៤", "៥", "៦", "៧", "៨", "៩">>,
      <<"᧐", "᧑", "᧒", "᧓", "᧔", "᧕", "᧖", "᧗", "᧘", "᧙">>,
      <<"᪀", "᪁", "᪂", "᪃", "᪄", "᪅", "᪆", "᪇", "᪈", "᪉">>,
      <<"᪐", "᪑", "᪒", "᪓", "᪔", "᪕", "᪖", "᪗", "᪘", "᪙">>,
      <<"᮰", "᮱", "᮲", "᮳", "᮴", "᮵", "᮶", "᮷", "᮸", "᮹">>,
      <<"꣐", "꣑", "꣒", "꣓", "꣔", "꣕", "꣖", "꣗", "꣘", "꣙">>,
      <<"꧐", "꧑", "꧒", "꧓", "꧔", "꧕", "꧖", "꧗", "꧘", "꧙">>,
      <<"꧰", "꧱", "꧲", "꧳", "꧴", "꧵", "꧶", "꧷", "꧸", "꧹">>,
      <<"꯰", "꯱", "꯲", "꯳", "꯴", "꯵", "꯶", "꯷", "꯸", "꯹">>>>

UnicodeDigitSet == {UnicodeDigits[b][i] : b \in DOMAIN UnicodeDigits, i \in 1..10}

\* a digit of another script becomes the ASCII digit of its value
ToAsciiDigit(c) ==
    IF c \in UnicodeDigitSet
    THEN DigitChar((CHOOSE i \in 1..10 : \E b \in DOMAIN UnicodeDigits : UnicodeDigits[b][i] = c) - 1)
    ELSE c

ToAsciiDigits(s) == [i \in 1..Len(s) |-> ToAsciiDigit(s[i])]

\* str.strip() as float() and int() apply it
RECURSIVE LStrip(_)
LStrip(s) == IF s # <<>> /\ Head(s) \in Whitespace THEN LStrip(Tail(s)) ELSE s

RECURSIVE RStrip(_)
RStrip(s) ==
    IF s # <<>> /\ s[Len(s)] \in Whitespace THEN RStrip(SubSeq(s, 1, Len(s) - 1)) ELSE s

Strip(s) == LStrip(RStrip(s))

HasSign(s) == s # <<>> /\ Head(s) \in {"+", "-"}

IsNegative(s) == s # <<>> /\ Head(s) = "-"

Unsigned(s) == IF HasSign(s) THEN Tail(s) ELSE s

\* the letters of 'inf', 'infinity' and 'nan' in lower case
Lower(c) ==
    CASE c = "I" -> "i" [] c = "N" -> "n" [] c = "F" -> "f" [] c = "T" -> "t"
      [] c = "Y" -> "y" [] c = "A" -> "a" [] OTHER -> c

LowerSeq(s) == [i \in 1..Len(s) |-> Lower(s[i])]

\* digits with single underscores between them
IsDigitPart(s) ==
    /\ s # <<>>
    /\ s[1] \in Digits
    /\ s[Len(s)] \in Digits
    /\ \A i \in 1..Len(s) : s[i] \in Digits \cup {"_"}
    /\ \A i \in 1..(Len(s) - 1) : ~(s[i] = "_" /\ s[i + 1] = "_")

OnlyDigits(s) == SelectSeq(s, LAMBDA c : c \in Digits)

RECURSIVE NumDigits(_)
NumDigits(n) == IF n < 10 THEN 1 ELSE 1 + NumDigits(n \div 10)

RECURSIVE Times10(_, _)
Times10(n, k) == IF k = 0 THEN n ELSE Times10(10 * n, k - 1)

\* n * 10^e with the trailing zeros of n moved into the exponent
RECURSIVE Normalise(_, _)
Normalise(num, exp) ==
    IF num = 0 THEN [num |-> 0, exp |-> 0]
    ELSE IF num % 10 = 0 THEN Normalise(num \div 10, exp + 1)
    ELSE [num |-> num, exp |-> exp]

\* the double nearest to num * 10^exp: beyond the largest double it is inf,
\* below half the smallest subnormal it is 0
ToDouble(neg, num, exp) ==
    LET n == Normalise(num, exp)
        order == NumDigits(n.num) + n.exp - 1
        lead == Times10(n.num, 9 - NumDigits(n.num))
    IN  IF n.num = 0 THEN [kind |-> "finite", neg |-> neg, num |-> 0, exp |-> 0]
        ELSE IF order > 308 \/ (order = 308 /\ lead >= 179769314)
        THEN [kind |-> "inf", neg |-> neg]
        ELSE IF order < -324 \/ (order = -324 /\ lead <= 247032822)
        THEN [kind |-> "finite", neg |-> neg, num |-> 0, exp |-> 0]
        ELSE [kind |-> "finite", neg |-> neg, num |-> n.num, exp |-> n.exp]

\* position of the first 'e' or 'E', or 0
ExpPos(s) ==
    IF \E i \in 1..Len(s) : s[i] \in {"e", "E"}
    THEN CHOOSE i \in 1..Len(s) :
            s[i] \in {"e", "E"} /\ \A j \in 1..(i - 1) : s[j] \notin {"e", "E"}
    ELSE 0

Mantissa(s) == IF ExpPos(s) = 0 THEN s ELSE SubSeq(s, 1, ExpPos(s) - 1)

Exponent(s) == IF ExpPos(s) = 0 THEN <<>> ELSE SubSeq(s, ExpPos(s) + 1, Len(s))

DotPos(s) ==
    IF CountOf(s, ".") = 0 THEN Len(s) + 1 ELSE CHOOSE i \in 1..Len(s) : s[i] = "."

Whole(s) == SubSeq(s, 1, DotPos(s) - 1)

Frac(s) == SubSeq(s, DotPos(s) + 1, Len(s))

\* a decimal literal: digits, optionally a '.', optionally an exponent
IsDecimal(s) ==
    /\ CountOf(Mantissa(s), ".") <= 1
    /\ Whole(Mantissa(s)) = <<>> \/ IsDigitPart(Whole(Mantissa(s)))
    /\ Frac(Mantissa(s)) = <<>> \/ IsDigitPart(Frac(Mantissa(s)))
    /\ Whole(Mantissa(s)) # <<>> \/ Frac(Mantissa(s)) # <<>>
    /\ ExpPos(s) # 0 => IsDigitPart(Unsigned(Exponent(s)))

DecimalValue(neg, s) ==
    LET m == Mantissa(s)
        e == DigitsValue(OnlyDigits(Unsigned(Exponent(s))))
    IN  ToDouble(neg,
                 DigitsValue(OnlyDigits(Whole(m)) \o OnlyDigits(Frac(m))),
                 (IF IsNegative(Exponent(s)) THEN 0 - e ELSE e) - Len(OnlyDigits(Frac(m))))

\* float(s): digits of any script count as their ASCII digit; surrounding
\* whitespace and a sign are allowed, then 'inf',
\* 'infinity' or 'nan' in any case, or a decimal literal; anything else
\* raises ValueError
float(s) ==
    LET t == Strip(ToAsciiDigits(s))
        u == Unsigned(t)
    IN  IF LowerSeq(u) \in {<<"i", "n", "f">>,
                            <<"i", "n", "f", "i", "n", "i", "t", "y">>}
        THEN [ok |-> TRUE, value |-> [kind |-> "inf", neg |-> IsNegative(t)]]
        ELSE IF LowerSeq(u) = <<"n", "a", "n">>
        THEN [ok |-> TRUE, value |-> [kind |-> "nan"]]
        ELSE IF IsDecimal(u)
        THEN [ok |-> TRUE, value |-> DecimalValue(IsNegative(t), u)]
        ELSE [ok |-> FALSE, exc |-> "ValueError"]

\* int(s): digits of any script count as their ASCII digit; surrounding
\* whitespace and a sign are allowed, then digits with
\* single underscores between them; anything else raises ValueError
int(s) ==
    LET t == Strip(ToAsciiDigits(s))
        u == Unsigned(t)
        v == DigitsValue(OnlyDigits(u))
    IN  IF IsDigitPart(u)
        THEN [ok |-> TRUE, value |-> IF IsNegative(t) THEN 0 - v ELSE v]
        ELSE [ok |-> FALSE, exc |-> "ValueError"]

\* lines 131, 133-135: float(re.sub('[$,]', '', table_row[k]))
clean_price(s) == float(re_sub(s))

\* line 132: int(table_row['volume'].replace(',', ''))
clean_volume(s) == int(replace_comma(s))

\* the body of the cleaning loop succeeds on this row
row_parses(table_row) ==
    /\ clean_price(table_row.close).ok
    /\ clean_volume(table_row.volume).ok
    /\ clean_price(table_row.open).ok
    /\ clean_price(table_row.high).ok
    /\ clean_price(table_row.low).ok

\* lines 130-135: one pass of the cleaning loop over a row that parses
clean_row(table_row, symbol) ==
    [date |-> table_row.date,
     symbol |-> symbol,
     close |-> clean_price(table_row.close).value,
     volume |-> clean_volume(table_row.volume).value,
     open |-> clean_price(table_row.open).value,
     high |-> clean_price(table_row.high).value,
     low |-> clean_price(table_row.low).value]

\* faulty variant of clean_rows: a row that does not parse is skipped
clean_rows_skipping(rows, symbol) ==
    LET good == SelectSeq(rows, row_parses)
    IN  [outcome |-> "return", none |-> FALSE,
         rows |-> [i \in 1..Len(good) |-> clean_row(good[i], symbol)]]

\* lines 129-137: the cleaning loop; the first row that does not parse raises
clean_rows(rows, symbol) ==
    IF \E i \in 1..Len(rows) : ~row_parses(rows[i])
    THEN [outcome |-> "raise", exc |-> "ValueError"]
    ELSE [outcome |-> "return", none |-> FALSE,
          rows |-> [i \in 1..Len(rows) |-> clean_row(rows[i], symbol)]]

(***************************************************************************)
(* The quote endpoint's answers.                                           *)
(***************************************************************************)
None == [none |-> TRUE]

\* requests.Response.ok: raise_for_status raises for 400 <= status < 600 only
Ok(resp) == ~(resp.status >= 400 /\ resp.status < 600)

\* historical_data.json()['data']['tradesTable']['rows'] (line 125-126):
\* a missing key raises KeyError, subscripting null raises TypeError
json_rows(json) ==
    IF "data" \notin DOMAIN json THEN [ok |-> FALSE, exc |-> "KeyError"]
    ELSE IF json.data = None THEN [ok |-> FALSE, exc |-> "TypeError"]
    ELSE IF "tradesTable" \notin DOMAIN json.data THEN [ok |-> FALSE, exc |-> "KeyError"]
    ELSE IF json.data.tradesTable = None THEN [ok |-> FALSE, exc |-> "TypeError"]
    ELSE IF "rows" \notin DOMAIN json.data.tradesTable THEN [ok |-> FALSE, exc |-> "KeyError"]
    ELSE [ok |-> TRUE, rows |-> json.data.tradesTable.rows]

(***************************************************************************)
(* PriceHistoryNASDAQ                                                      *)
(***************************************************************************)
api_url == "https://api.nasdaq.com/api/quote"
api_service == "historical"
user_agent == "Mozilla/5.0"

\* '/'.join(parts)
RECURSIVE Join(_)
Join(parts) ==
    IF Len(parts) = 0 THEN ""
    ELSE IF Len(parts) = 1 THEN parts[1]
    ELSE parts[1] \o "/" \o Join(Tail(parts))

\* faulty variant of _build_url: parts = [api_url, api_service]
_build_url_without_symbol(symbol) == Join(<<api_url, api_service>>)

\* lines 46-47: parts = [self._api_url, symbol, self._api_service]
_build_url(symbol) == Join(<<api_url, symbol, api_service>>)

\* lines 98-121: the request _grab_prices issues
grab_request(symbol, from, to) ==
    [url |-> _build_url(symbol),
     params |-> [fromdate |-> isoformat(from),
                 todate |-> isoformat(to),
                 assetclass |-> "stocks",
                 limit |-> DaysBetween(to, from)],
     headers |-> ("user-agent" :> user_agent)]

\* lines 123-137: what _grab_prices does with the response; a response that is
\* not ok falls off the end of the function, which returns None
_grab_prices(symbol, resp) ==
    IF Ok(resp)
    THEN IF json_rows(resp.json).ok
         THEN clean_rows(json_rows(resp.json).rows, symbol)
         ELSE [outcome |-> "raise", exc |-> json_rows(resp.json).exc]
    ELSE [outcome |-> "return", none |-> TRUE, rows |-> <<>>]

\* faulty variant of accumulate: the batch is appended
accumulate_appending(batch, acc) == acc \o batch

\* lines 74-78: all_data = self._grab_prices(...) + all_data
accumulate(batch, acc) == batch \o acc

\* lines 80-81: pd.DataFrame(data=all_data) with the 'date' column parsed
to_frame(rows) == [i \in 1..Len(rows) |-> [rows[i] EXCEPT !.date = ParseMDY(@)]]

(***************************************************************************)
(* PriceHistoryYF                                                          *)
(***************************************************************************)
\* lines 224-227: the window _build_data_frame(from_date, to_date) resolves
yf_window(fd, td, now) ==
    LET t == IF td = None THEN now ELSE td
        f == IF fd = None THEN MinusMonths(t, 6) ELSE fd
    IN  [from |-> f, to |-> t]

\* line 229: yf.download(self._symbols, start=from_date, end=to_date); the wide
\* table is identified by the tickers and the window it was downloaded for
yf_download(tickers, start, end) ==
    <<[wide |-> TRUE, tickers |-> tickers, start |-> start, end |-> end]>>

yf_request(tickers, start, end) ==
    [url |-> "yf.download",
     params |-> [tickers |-> tickers, start |-> start, end |-> end],
     headers |-> <<>>]

(***************************************************************************)
(* Inputs.                                                                 *)
(***************************************************************************)
SymbolSet == {"AAPL", "MSFT"}

SymbolLists == UNION {[1..n -> SymbolSet] : n \in 0..MaxSymbols}

Todays == {Date(2024, 8, 31), Date(2025, 3, 15), Date(2023, 12, 31)}

Row1 ==
    [date |-> <<"1", "0", "/", "2", "5", "/", "2", "0", "2", "4">>,
     close |-> <<"$", "1", ",", "2", "3", "4", ".", "5", "6">>,
     volume |-> <<"1", "2", ",", "3", "4", "5">>,
     open |-> <<"$", "1", ",", "2", "3", "0", ".", "0", "0">>,
     high |-> <<"$", "1", ",", "2", "4", "0", ".", "5">>,
     low |-> <<"$", "1", ",", "2", "2", "9">>]

Row2 ==
    [date |-> <<"1", "0", "/", "2", "4", "/", "2", "0", "2", "4">>,
     close |-> <<"$", "9", "9", ".", "5">>,
     volume |-> <<"9", "0", "0">>,
     open |-> <<"$", "9", "8">>,
     high |-> <<"$", "1", "0", "0", ".", "2", "5">>,
     low |-> <<"$", "9", "7", ".", "7", "5">>]

Row3 ==
    [date |-> <<"0", "2", "/", "2", "9", "/", "2", "0", "2", "4">>,
     close |-> <<"$", "0", ".", "5", "0">>,
     volume |-> <<"1", ",", "0", "0", "0", ",", "0", "0", "0">>,
     open |-> <<"$", "0", ".", "4", "9">>,
     high |-> <<"$", "0", ".", "5", "1">>,
     low |-> <<"$", "0", ".", "4", "8">>]

\* a volume that is no number
RowBadVolume == [Row2 EXCEPT !.volume = <<"N", "/", "A">>]

\* a price that is no number
RowBadPrice == [Row1 EXCEPT !.high = <<"N", "/", "A">>]

Resp404 == [status |-> 404, json |-> [message |-> "Not Found"]]

Resp500 == [status |-> 500, json |-> [message |-> "Internal Server Error"]]

RespNoData == [status |-> 200, json |-> [message |-> "no data"]]

RespDataNull == [status |-> 200, json |-> [data |-> None]]

RespRows(rows) == [status |-> 200, json |-> [data |-> [tradesTable |-> [rows |-> rows]]]]

\* a status outside 200..299 that Response.ok accepts, with a quote body
Resp600 == [RespRows(<<Row2>>) EXCEPT !.status = 600]

QuoteResponses ==
    {Resp404, Resp500, Resp600, RespNoData, RespDataNull,
     RespRows(<<>>), RespRows(<<Row1, Row2>>), RespRows(<<Row3>>),
     RespRows(<<Row1, RowBadVolume>>), RespRows(<<RowBadPrice, Row2>>)}

Upstreams == [SymbolSet -> QuoteResponses]

NoUpstream == [s \in SymbolSet |-> Resp404]

NoFrame == [set |-> FALSE, table |-> <<>>]

Frame(t) == [set |-> TRUE, table |-> t]

NoExc == "none"

(***************************************************************************)
(* Construction and use of PriceHistoryNASDAQ, PriceHistory and            *)
(* PriceHistoryYF.                                                         *)
(***************************************************************************)
Init ==
    /\ cls \in {"PriceHistoryNASDAQ", "PriceHistory", "PriceHistoryYF"}
    /\ symbols \in SymbolLists
    /\ today \in Todays
    /\ upstream \in (IF cls = "PriceHistoryNASDAQ" THEN Upstreams ELSE {NoUpstream})
    /\ pc = "new"
    /\ phase = "ctor"
    /\ idx = 0
    /\ from_date = None
    /\ to_date = None
    /\ all_data = <<>>
    /\ requests = <<>>
    /\ responses = <<>>
    /\ price_data_frame = NoFrame
    /\ assigned = 0
    /\ exc = NoExc
    /\ calls = 0
    /\ arg = None
    /\ ret = None

\* an exception leaves _build_data_frame: out of __init__ (no instance, nothing
\* assigned), or back to the caller of a later call
Raise(e) ==
    IF phase = "ctor"
    THEN /\ pc' = "raised"
         /\ exc' = e
         /\ ret' = ret
    ELSE /\ pc' = "done"
         /\ exc' = exc
         /\ ret' = [op |-> "_build_data_frame", raised |-> e]

\* lines 67-71: entry of _build_data_frame
EnterBuildDataFrame ==
    /\ all_data' = <<>>
    /\ to_date' = today
    /\ from_date' = MinusMonths(today, 6)
    /\ idx' = 1
    /\ pc' = "loop"

\* line 33: __init__ calls _build_data_frame
NASDAQ_init ==
    /\ cls = "PriceHistoryNASDAQ"
    /\ pc = "new"
    /\ EnterBuildDataFrame
    /\ UNCHANGED <<cls, symbols, today, upstream, phase, requests, responses,
                   price_data_frame, assigned, exc, calls, arg, ret>>

\* lines 73-78: one pass of the loop, all_data = _grab_prices(...) + all_data
NASDAQ_loop ==
    /\ cls = "PriceHistoryNASDAQ"
    /\ pc = "loop"
    /\ idx <= Len(symbols)
    /\ LET symbol == symbols[idx]
           resp == upstream[symbol]
           r == _grab_prices(symbol, resp)
       IN  /\ requests' = Append(requests, grab_request(symbol, from_date, to_date))
           /\ responses' = Append(responses, resp)
           /\ IF r.outcome = "raise"
              THEN Raise(r.exc) /\ UNCHANGED <<all_data, idx>>
              ELSE IF r.none
              THEN Raise("TypeError") /\ UNCHANGED <<all_data, idx>>
              ELSE /\ all_data' = accumulate(r.rows, all_data)
                   /\ idx' = idx + 1
                   /\ UNCHANGED <<pc, exc, ret>>
    /\ UNCHANGED <<cls, symbols, today, upstream, phase, from_date, to_date,
                   price_data_frame, assigned, calls, arg>>

\* faulty variant of NASDAQ_frame: _build_data_frame itself assigns
\* self.price_data_frame, as PriceHistoryYF._build_data_frame does
NASDAQ_frame_assigning ==
    /\ cls = "PriceHistoryNASDAQ"
    /\ pc = "loop"
    /\ idx > Len(symbols)
    /\ IF all_data = <<>>
       THEN Raise("KeyError") /\ UNCHANGED <<price_data_frame, assigned>>
       ELSE /\ pc' = "done"
            /\ price_data_frame' = Frame(to_frame(all_data))
            /\ assigned' = assigned + 1
            /\ ret' = IF phase = "ctor" THEN ret
                      ELSE [op |-> "_build_data_frame", value |-> to_frame(all_data)]
            /\ exc' = exc
    /\ UNCHANGED <<cls, symbols, today, upstream, phase, idx, from_date, to_date,
                   all_data, requests, responses, calls, arg>>

\* lines 80-83 and 33: the table is built and returned; __init__ assigns it,
\* a later caller only receives it. An empty all_data gives a table without a
\* 'date' column, and price_data_frame['date'] raises KeyError
NASDAQ_frame ==
    /\ cls = "PriceHistoryNASDAQ"
    /\ pc = "loop"
    /\ idx > Len(symbols)
    /\ IF all_data = <<>>
       THEN Raise("KeyError") /\ UNCHANGED <<price_data_frame, assigned>>
       ELSE /\ pc' = "done"
            /\ IF phase = "ctor"
               THEN /\ price_data_frame' = Frame(to_frame(all_data))
                    /\ assigned' = assigned + 1
                    /\ ret' = ret
               ELSE /\ ret' = [op |-> "_build_data_frame", value |-> to_frame(all_data)]
                    /\ UNCHANGED <<price_data_frame, assigned>>
            /\ exc' = exc
    /\ UNCHANGED <<cls, symbols, today, upstream, phase, idx, from_date, to_date,
                   all_data, requests, responses, calls, arg>>

\* a later call of instance._build_data_frame()
NASDAQ_build_data_frame ==
    /\ cls = "PriceHistoryNASDAQ"
    /\ pc = "done"
    /\ calls < MaxCalls
    /\ calls' = calls + 1
    /\ phase' = "call"
    /\ EnterBuildDataFrame
    /\ UNCHANGED <<cls, symbols, today, upstream, requests, responses,
                   price_data_frame, assigned, exc, arg, ret>>

\* a later call of instance._grab_prices(symbol, from_date, to_date)
NASDAQ_grab_prices ==
    /\ cls = "PriceHistoryNASDAQ"
    /\ pc = "done"
    /\ calls < MaxCalls
    /\ \E symbol \in SymbolSet :
         /\ requests' = Append(requests, grab_request(symbol, from_date, to_date))
         /\ responses' = Append(responses, upstream[symbol])
         /\ ret' = [op |-> "_grab_prices", value |-> _grab_prices(symbol, upstream[symbol])]
    /\ calls' = calls + 1
    /\ UNCHANGED <<cls, symbols, today, upstream, pc, phase, idx, from_date, to_date,
                   all_data, price_data_frame, assigned, exc, arg>>

\* instance._build_url(symbol)
NASDAQ_build_url ==
    /\ cls = "PriceHistoryNASDAQ"
    /\ pc = "done"
    /\ calls < MaxCalls
    /\ \E symbol \in SymbolSet : ret' = [op |-> "_build_url", value |-> _build_url(symbol)]
    /\ calls' = calls + 1
    /\ UNCHANGED <<cls, symbols, today, upstream, pc, phase, idx, from_date, to_date,
                   all_data, requests, responses, price_data_frame, assigned, exc, arg>>

\* instance.symbols (both classes)
Get_symbols ==
    /\ cls \in {"PriceHistoryNASDAQ", "PriceHistoryYF"}
    /\ pc = "done"
    /\ calls < MaxCalls
    /\ ret' = [op |-> "symbols", value |-> symbols]
    /\ calls' = calls + 1
    /\ UNCHANGED <<cls, symbols, today, upstream, pc, phase, idx, from_date, to_date,
                   all_data, requests, responses, price_data_frame, assigned, exc, arg>>

\* src/data_downloader/data_client.py lines 63-67: to_date = [] and
\* from_date = to_date - relativedelta(months=6): a list minus a relativedelta
\* raises TypeError before any request
PriceHistory_init ==
    /\ cls = "PriceHistory"
    /\ pc = "new"
    /\ all_data' = <<>>
    /\ to_date' = <<>>
    /\ pc' = "raised"
    /\ exc' = "TypeError"
    /\ UNCHANGED <<cls, symbols, today, upstream, phase, idx, from_date, requests,
                   responses, price_data_frame, assigned, calls, arg, ret>>

\* lines 224-230: the body of PriceHistoryYF._build_data_frame; its caller
\* counts the assignments
YF_build(fd, td) ==
    LET w == yf_window(fd, td, today)
    IN  /\ from_date' = w.from
        /\ to_date' = w.to
        /\ requests' = Append(requests, yf_request(symbols, w.from, w.to))
        /\ price_data_frame' = Frame(yf_download(symbols, w.from, w.to))

\* lines 196-197: __init__ calls _build_data_frame(), which assigns
\* self.price_data_frame (line 229), and assigns what it returns, the same
\* table, once more (line 197)
YF_init ==
    /\ cls = "PriceHistoryYF"
    /\ pc = "new"
    /\ YF_build(None, None)
    /\ assigned' = assigned + 2
    /\ pc' = "done"
    /\ UNCHANGED <<cls, symbols, today, upstream, phase, idx, all_data, responses,
                   exc, calls, arg, ret>>

\* a later call of instance._build_data_frame(from_date, to_date)
YF_build_data_frame ==
    /\ cls = "PriceHistoryYF"
    /\ pc = "done"
    /\ calls < MaxCalls
    /\ \E fd \in {None} \cup Todays, td \in {None} \cup Todays :
         /\ YF_build(fd, td)
         /\ assigned' = assigned + 1
         /\ ret' = [op |-> "_build_data_frame",
                    value |-> yf_download(symbols, yf_window(fd, td, today).from,
                                          yf_window(fd, td, today).to)]
    /\ calls' = calls + 1
    /\ UNCHANGED <<cls, symbols, today, upstream, pc, phase, idx, all_data,
                   responses, exc, arg>>

Next ==
    \/ NASDAQ_init
    \/ NASDAQ_loop
    \/ NASDAQ_frame
    \/ NASDAQ_build_data_frame
    \/ NASDAQ_grab_prices
    \/ NASDAQ_build_url
    \/ Get_symbols
    \/ PriceHistory_init
    \/ YF_init
    \/ YF_build_data_frame

Spec == Init /\ [][Next]_vars

(***************************************************************************)
(* Claims about PriceHistoryNASDAQ, PriceHistory and PriceHistoryYF.       *)
(***************************************************************************)
\* the construction's requests: request k is the one for symbols[k]
InCtor == phase = "ctor" /\ calls = 0

Is2xx(resp) == resp.status >= 200 /\ resp.status < 300

\* a response taken as ok (every 2xx is) that the parsing step cannot digest:
\* the rows path is missing, or some row has a numeric field that does not
\* parse after stripping
Unparseable(resp) ==
    /\ Ok(resp)
    /\ \/ ~json_rows(resp.json).ok
       \/ /\ json_rows(resp.json).ok
          /\ \E i \in 1..Len(json_rows(resp.json).rows) :
                ~row_parses(json_rows(resp.json).rows[i])

\* C1: with at least two symbols, a non-2xx response for one symbol does not
\* abort the construction, and the table built holds exactly the rows of the
\* symbols whose response was 2xx.
C1_NonOkDoesNotAbort ==
    (/\ cls = "PriceHistoryNASDAQ"
     /\ InCtor
     /\ Len(symbols) >= 2
     /\ \E k \in 1..Len(responses) : ~Is2xx(responses[k])
     /\ \A k \in 1..Len(responses) : ~Unparseable(responses[k]))
    => /\ pc # "raised"
       /\ exc = NoExc
       /\ pc = "done" =>
            \A i \in 1..Len(price_data_frame.table) :
                \E k \in 1..Len(symbols) :
                    /\ Is2xx(upstream[symbols[k]])
                    /\ price_data_frame.table[i].symbol = symbols[k]

\* the raw rows the endpoint returned for the k-th symbol
RawBatch(k) == upstream[symbols[k]].json.data.tradesTable.rows

\* number of rows accumulated ahead of the k-th symbol's batch once n symbols
\* are done: those of the symbols k+1..n
RECURSIVE RowsOfLater(_, _)
RowsOfLater(k, n) ==
    IF k >= n THEN 0 ELSE Len(RawBatch(k + 1)) + RowsOfLater(k + 1, n)

\* C2: every response the loop got past was ok, and the rows accumulated are
\* batch(sn), ..., batch(s1): after n symbols the batch of the k-th symbol
\* sits, contiguous and in upstream order, right after the batches of the
\* symbols k+1..n, and there is no other row.
C2_ReverseConcatenation ==
    (/\ cls = "PriceHistoryNASDAQ"
     /\ InCtor
     /\ pc \in {"loop", "done", "raised"})
    => /\ \A k \in 1..(idx - 1) : Ok(responses[k])
       /\ Len(all_data) = RowsOfLater(0, idx - 1)
       /\ \A k \in 1..(idx - 1) : \A j \in 1..Len(RawBatch(k)) :
            /\ all_data[RowsOfLater(k, idx - 1) + j].symbol = symbols[k]
            /\ all_data[RowsOfLater(k, idx - 1) + j].date = RawBatch(k)[j].date
            /\ all_data[RowsOfLater(k, idx - 1) + j] = clean_row(RawBatch(k)[j], symbols[k])
       /\ pc = "done" => idx = Len(symbols) + 1

C2_Witness ==
    /\ cls = "PriceHistoryNASDAQ"
    /\ InCtor
    /\ pc = "done"
    /\ symbols = <<"AAPL", "MSFT">>
    /\ upstream["AAPL"] = RespRows(<<Row1, Row2>>)
    /\ upstream["MSFT"] = RespRows(<<Row3>>)
    /\ Len(all_data) = 3
    /\ all_data[1].symbol = "MSFT"
    /\ all_data[2].symbol = "AAPL"
    /\ all_data[2].date = Row1.date
    /\ all_data[3].date = Row2.date

\* C3: constructing with an empty symbol list returns normally, issues no
\* request and leaves an empty table in price_data_frame.
C3_EmptySymbolListBuildsEmptyTable ==
    (/\ cls = "PriceHistoryNASDAQ"
     /\ InCtor
     /\ symbols = <<>>
     /\ pc \notin {"new", "loop"})
    => /\ pc = "done"
       /\ exc = NoExc
       /\ requests = <<>>
       /\ price_data_frame = Frame(<<>>)

\* C4: a 2xx (or other ok) response whose rows path is missing, or one of
\* whose rows has a numeric field that does not parse, makes the construction
\* fail as a whole:
\* the exception leaves the constructor, price_data_frame is never assigned
\* and the request that got this response is the last one.
C4_ParseFailureAborts ==
    \A k \in 1..Len(responses) :
        (/\ cls = "PriceHistoryNASDAQ"
         /\ InCtor
         /\ Unparseable(responses[k]))
        => /\ pc = "raised"
           /\ exc \in {"KeyError", "TypeError", "ValueError"}
           /\ price_data_frame = NoFrame
           /\ assigned = 0
           /\ Len(requests) = k

C4_Witness ==
    /\ cls = "PriceHistoryNASDAQ"
    /\ symbols = <<"AAPL", "MSFT">>
    /\ upstream["AAPL"] = RespRows(<<Row3>>)
    /\ upstream["MSFT"] = RespRows(<<Row1, RowBadVolume>>)
    /\ Len(requests) = 2
    /\ Len(all_data) = 1
    /\ pc = "raised"
    /\ exc = "ValueError"
    /\ price_data_frame = NoFrame

QueryKeys == {"fromdate", "todate", "assetclass", "limit"}

\* C5 as stated: every request goes to base endpoint + "/historical", without
\* the symbol in the path, and carries the symbol as a query parameter.
C5_SymbolAsQueryParameter ==
    \A k \in 1..Len(requests) :
        (cls = "PriceHistoryNASDAQ" /\ InCtor)
        => /\ requests[k].url = "https://api.nasdaq.com/api/quote/historical"
           /\ \E key \in DOMAIN requests[k].params \ {"fromdate", "todate", "limit"} :
                 requests[k].params[key] = symbols[k]

\* C5 amended: the request for a symbol goes to base endpoint + "/" + symbol +
\* "/historical", and its query parameters are exactly fromdate, todate,
\* assetclass and limit: the symbol is in the path and is no query parameter.
C5_SymbolInPath ==
    \A k \in 1..Len(requests) :
        (cls = "PriceHistoryNASDAQ" /\ InCtor)
        => /\ requests[k].url =
                "https://api.nasdaq.com/api/quote/" \o symbols[k] \o "/historical"
           /\ DOMAIN requests[k].params = QueryKeys
           /\ requests[k].params.assetclass = "stocks"
           /\ requests[k].params.assetclass # symbols[k]

C5_Witness ==
    /\ cls = "PriceHistoryNASDAQ"
    /\ InCtor
    /\ symbols = <<"MSFT", "AAPL">>
    /\ Len(requests) = 2
    /\ requests[2].url = "https://api.nasdaq.com/api/quote/AAPL/historical"

\* C9 as stated: once the instance is constructed, no operation changes
\* price_data_frame or fetches again.
C9_CreateOnceReadMany ==
    [][price_data_frame.set =>
        /\ price_data_frame' = price_data_frame
        /\ assigned' = assigned
        /\ requests' = requests]_vars

\* C9 amended: for PriceHistoryNASDAQ price_data_frame is assigned once, by the
\* constructor, and no later operation of the instance assigns or changes it
\* (later calls of _build_data_frame and _grab_prices do fetch again, and only
\* return what they fetched). PriceHistoryYF assigns it twice while it is
\* constructed and once more in every later call of _build_data_frame, one
\* more time than it has downloaded.
C9_AssignedOnceByNASDAQ ==
    /\ [](cls = "PriceHistoryNASDAQ" =>
            /\ assigned <= 1
            /\ price_data_frame.set <=> (assigned = 1)
            /\ (pc = "done" \/ phase = "call") => price_data_frame.set
            /\ pc = "raised" => ~price_data_frame.set)
    /\ [](cls = "PriceHistoryYF" =>
            /\ price_data_frame.set <=> (pc = "done")
            /\ pc = "done" => Len(requests) \in 1..(1 + calls)
            /\ pc = "done" => assigned = 1 + Len(requests))
    /\ [][(cls = "PriceHistoryNASDAQ" /\ price_data_frame.set) =>
            /\ price_data_frame' = price_data_frame
            /\ assigned' = assigned]_vars

C9_Witness ==
    /\ cls = "PriceHistoryNASDAQ"
    /\ pc = "done"
    /\ calls = 1
    /\ phase = "call"
    /\ ret.op = "_build_data_frame"
    /\ Len(requests) = 2 * Len(symbols)
    /\ price_data_frame.set
    /\ assigned = 1

\* C10: both variants compute to_date = today and from_date = today minus six
\* months on construction, and every request carries the two dates in
\* ISO-8601 form, one request per symbol in input order.
C10_BothVariantsTrailingWindow ==
    (/\ cls \in {"PriceHistory", "PriceHistoryNASDAQ"}
     /\ InCtor
     /\ pc # "new")
    => /\ to_date = today
       /\ from_date = MinusMonths(today, 6)
       /\ \A k \in 1..Len(requests) :
            /\ ParseISO(requests[k].params.todate) = today
            /\ ParseISO(requests[k].params.fromdate) = MinusMonths(today, 6)

(***************************************************************************)
(* _grab_prices called on its own: the request it sends for a window and   *)
(* what its cleaning loop makes of the field strings.                      *)
(***************************************************************************)
GrabDates ==
    {Date(2023, 2, 28), Date(2023, 3, 1), Date(2023, 12, 31), Date(2024, 1, 1),
     Date(2024, 2, 28), Date(2024, 2, 29), Date(2024, 3, 1), Date(2024, 8, 31)}

Alphabet == {"$", ",", ".", "0", "1", "5", "N", "a", "e"}

FieldStrings == UNION {[1..n -> Alphabet] : n \in 0..MaxStrLen}

\* strings float() and int() take although no quote is written so: a vertical
\* tab or a no-break space around the number, digits of another script,
\* a sign with an exponent, an underscore between digits
ExtraFieldStrings ==
    {<<"", "1">>, <<"1", "">>, <<" ", "1", "5", "">>, <<"۱", "۲">>,
     <<" ", "-", "1", "e", "5", "\n">>, <<"1", "_", "0">>, <<"", "1">>}

PriceFields == {"close", "open", "high", "low"}

InitCall(args) ==
    /\ cls = "PriceHistoryNASDAQ"
    /\ arg \in args
    /\ symbols = <<arg.symbol>>
    /\ today = arg.to_date
    /\ upstream = [s \in SymbolSet |-> arg.resp]
    /\ pc = "call"
    /\ phase = "call"
    /\ idx = 0
    /\ from_date = None
    /\ to_date = None
    /\ all_data = <<>>
    /\ requests = <<>>
    /\ responses = <<>>
    /\ price_data_frame = NoFrame
    /\ assigned = 0
    /\ exc = NoExc
    /\ calls = 0
    /\ ret = None

\* windows of every order and length, a few responses
InitGrab ==
    InitCall([symbol : SymbolSet, from_date : GrabDates, to_date : GrabDates,
              resp : {Resp404, RespRows(<<>>), RespRows(<<Row1, Row2>>)}])

\* one row, one of whose numeric fields is any string over Alphabet or one of
\* ExtraFieldStrings
InitClean ==
    InitCall({[symbol |-> "AAPL", from_date |-> Date(2024, 2, 29),
               to_date |-> Date(2024, 8, 31),
               resp |-> RespRows(<<[Row1 EXCEPT ![f] = t]>>)] :
                  f \in PriceFields \cup {"volume"},
                  t \in FieldStrings \cup ExtraFieldStrings})

\* lines 85-137: _grab_prices(symbol, from_date, to_date)
Call_grab_prices ==
    /\ cls = "PriceHistoryNASDAQ"
    /\ pc = "call"
    /\ requests' = Append(requests, grab_request(arg.symbol, arg.from_date, arg.to_date))
    /\ responses' = Append(responses, arg.resp)
    /\ ret' = _grab_prices(arg.symbol, arg.resp)
    /\ pc' = "returned"
    /\ UNCHANGED <<cls, symbols, today, upstream, phase, idx, from_date, to_date,
                   all_data, price_data_frame, assigned, exc, calls, arg>>

NextGrab == Call_grab_prices

SpecGrab == InitGrab /\ [][NextGrab]_vars

SpecClean == InitClean /\ [][NextGrab]_vars

\* calendar order, and the days of a window counted month by month: the days
\* left in from_date's month, then whole months, then the days into to_date's
DateLE(a, b) ==
    \/ a.y < b.y
    \/ a.y = b.y /\ a.m < b.m
    \/ a.y = b.y /\ a.m = b.m /\ a.d <= b.d

FirstOfNextMonth(dt) ==
    IF dt.m < 12 THEN Date(dt.y, dt.m + 1, 1) ELSE Date(dt.y + 1, 1, 1)

RECURSIVE DaysFrom(_, _)
DaysFrom(a, b) ==
    IF a.y = b.y /\ a.m = b.m THEN b.d - a.d
    ELSE (DaysInMonth(a.y, a.m) - a.d + 1) + DaysFrom(FirstOfNextMonth(a), b)

\* C6: for from_date <= to_date the 'limit' parameter sent is the number of
\* days from from_date to to_date, counted one calendar day at a time; it is 0
\* when the two dates are equal.
C6_LimitIsDayCount ==
    (pc = "returned" /\ DateLE(arg.from_date, arg.to_date))
    => /\ Len(requests) = 1
       /\ requests[1].params.limit = DaysFrom(arg.from_date, arg.to_date)
       /\ (arg.from_date = arg.to_date) => requests[1].params.limit = 0

C6_Witness ==
    /\ pc = "returned"
    /\ arg.from_date = Date(2023, 12, 31)
    /\ arg.to_date = Date(2024, 3, 1)
    /\ requests[1].params.limit = 61

\* the forms the endpoint sends: a price is an optional leading '$', then
\* digits and ',' separators, then optionally '.' and digits; a volume is
\* digits and ',' separators
PointPos(s) ==
    IF \E i \in 1..Len(s) : s[i] = "." THEN CHOOSE i \in 1..Len(s) : s[i] = "."
    ELSE Len(s) + 1

IsPriceForm(s) ==
    /\ \A i \in 1..Len(s) : s[i] \in Digits \cup {"$", ",", "."}
    /\ \A i \in 2..Len(s) : s[i] # "$"
    /\ \A i \in 1..Len(s) : \A j \in 1..Len(s) : (s[i] = "." /\ s[j] = ".") => i = j
    /\ \A i \in 1..Len(s) : s[i] = "," => i < PointPos(s)
    /\ \E i \in 1..Len(s) : s[i] \in Digits

IsVolumeForm(s) ==
    /\ \A i \in 1..Len(s) : s[i] \in Digits \cup {","}
    /\ \E i \in 1..Len(s) : s[i] \in Digits

RECURSIVE Power10(_)
Power10(n) == IF n = 0 THEN 1 ELSE 10 * Power10(n - 1)

DigitsAfter(s, i) == Cardinality({j \in (i + 1)..Len(s) : s[j] \in Digits})

\* the integer the digits of s write, each digit weighted by its place
RECURSIVE WrittenDigits(_, _)
WrittenDigits(s, i) ==
    IF i > Len(s) THEN 0
    ELSE (IF s[i] \in Digits THEN DigitVal(s[i]) * Power10(DigitsAfter(s, i)) ELSE 0)
         + WrittenDigits(s, i + 1)

\* the cleaned value v is the number s writes: a finite, unsigned float with
\* v.num * 10^v.exp equal to the digits of s over 10^(number of digits after
\* the point)
IsNumberWritten(v, s) ==
    /\ v.kind = "finite"
    /\ ~v.neg
    /\ IF v.exp < 0
       THEN v.num * Power10(DigitsAfter(s, PointPos(s) - 1))
                = WrittenDigits(s, 1) * Power10(0 - v.exp)
       ELSE v.num * Power10(v.exp) * Power10(DigitsAfter(s, PointPos(s) - 1))
                = WrittenDigits(s, 1)

\* the raw row handed to the cleaning loop
RawRow == arg.resp.json.data.tradesTable.rows[1]

\* C7: on a row whose price strings have the price form and whose volume
\* string has the volume form the cleaning loop succeeds, every cleaned price
\* is the number its string writes without '$' and ',', the cleaned volume is
\* the integer its string writes without ',', and stripping a stripped string
\* changes neither the string nor the value.
C7_CleanupTotalIdempotent ==
    (/\ pc = "returned"
     /\ \A f \in PriceFields : IsPriceForm(RawRow[f])
     /\ IsVolumeForm(RawRow.volume))
    => /\ ret.outcome = "return"
       /\ ~ret.none
       /\ Len(ret.rows) = 1
       /\ \A f \in PriceFields :
            /\ IsNumberWritten(ret.rows[1][f], RawRow[f])
            /\ re_sub(re_sub(RawRow[f])) = re_sub(RawRow[f])
            /\ \A i \in 1..Len(re_sub(RawRow[f])) : re_sub(RawRow[f])[i] \notin {"$", ","}
            /\ clean_price(re_sub(RawRow[f])) = clean_price(RawRow[f])
       /\ ret.rows[1].volume = WrittenDigits(RawRow.volume, 1)
       /\ replace_comma(replace_comma(RawRow.volume)) = replace_comma(RawRow.volume)
       /\ clean_volume(replace_comma(RawRow.volume)) = clean_volume(RawRow.volume)

C7_Witness ==
    /\ pc = "returned"
    /\ RawRow.close = <<"$", "1", ",", "2", "3", "4", ".", "5", "6">>
    /\ RawRow.open = <<"$", "1", ",", "5">>
    /\ RawRow.volume = <<"1", "2", ",", "3", "4", "5">>
    /\ ret.outcome = "return"
    /\ ret.rows[1].close = [kind |-> "finite", neg |-> FALSE, num |-> 123456, exp |-> -2]
    /\ ret.rows[1].open = [kind |-> "finite", neg |-> FALSE, num |-> 15, exp |-> 0]
    /\ ret.rows[1].high = [kind |-> "finite", neg |-> FALSE, num |-> 12405, exp |-> -1]
    /\ ret.rows[1].volume = 12345

(***************************************************************************)
(* DolarPrices                                                             *)
(***************************************************************************)
dolar_api_url == "https://api.argentinadatos.com/v1/"
dolar_api_service == "cotizaciones/dolares"

\* lines 160-161
Dolar_build_url(symbol) == Join(<<dolar_api_url, dolar_api_service, symbol>>)

\* line 176: requests.get(full_url), no parameters and no headers
dolar_request(symbol) == [url |-> Dolar_build_url(symbol), params |-> <<>>, headers |-> <<>>]

\* faulty variant of dolar_frame: the [['venta']] selection is missing
dolar_frame_all_columns(dolar_data) ==
    IF dolar_data = <<>> THEN [outcome |-> "raise", exc |-> "KeyError"]
    ELSE [outcome |-> "return",
          table |-> [i \in 1..Len(dolar_data) |->
                        [index |-> ParseISO(dolar_data[i].fecha),
                         columns |-> [casa |-> dolar_data[i].casa,
                                      compra |-> dolar_data[i].compra,
                                      venta |-> dolar_data[i].venta]]]]

\* lines 177-180: the table of the response's records, indexed by the parsed
\* 'fecha', with the column 'venta' alone; an empty response gives a table
\* without a 'fecha' column, and dolar_df['fecha'] raises KeyError
dolar_frame(dolar_data) ==
    IF dolar_data = <<>> THEN [outcome |-> "raise", exc |-> "KeyError"]
    ELSE [outcome |-> "return",
          table |-> [i \in 1..Len(dolar_data) |->
                        [index |-> ParseISO(dolar_data[i].fecha),
                         columns |-> [venta |-> dolar_data[i].venta]]]]

Categories == {"oficial", "blue"}

DolarRecords ==
    {[casa |-> "oficial", compra |-> 980, venta |-> 1000,
      fecha |-> <<"2", "0", "2", "4", "-", "0", "2", "-", "2", "9">>],
     [casa |-> "oficial", compra |-> 985, venta |-> 1005,
      fecha |-> <<"2", "0", "2", "4", "-", "0", "3", "-", "0", "1">>],
     [casa |-> "oficial", compra |-> 990, venta |-> 1005,
      fecha |-> <<"2", "0", "2", "3", "-", "1", "2", "-", "3", "1">>]}

DolarResponses == UNION {[1..n -> DolarRecords] : n \in 0..MaxRecords}

InitDolar ==
    /\ cls = "DolarPrices"
    /\ arg \in [symbol : Categories, resp : DolarResponses]
    /\ symbols = <<>>
    /\ today = Date(2024, 8, 31)
    /\ upstream = NoUpstream
    /\ pc = "call"
    /\ phase = "call"
    /\ idx = 0
    /\ from_date = None
    /\ to_date = None
    /\ all_data = <<>>
    /\ requests = <<>>
    /\ responses = <<>>
    /\ price_data_frame = NoFrame
    /\ assigned = 0
    /\ exc = NoExc
    /\ calls = 0
    /\ ret = None

\* lines 163-180: DolarPrices()._build_data_frame(symbol)
Dolar_build_data_frame ==
    /\ cls = "DolarPrices"
    /\ pc = "call"
    /\ requests' = Append(requests, dolar_request(arg.symbol))
    /\ responses' = Append(responses, arg.resp)
    /\ ret' = dolar_frame(arg.resp)
    /\ pc' = "returned"
    /\ UNCHANGED <<cls, symbols, today, upstream, phase, idx, from_date, to_date,
                   all_data, price_data_frame, assigned, exc, calls, arg>>

NextDolar == Dolar_build_data_frame

SpecDolar == InitDolar /\ [][NextDolar]_vars

\* one GET without parameters, and a table with one row per record, in response
\* order, keyed by the record's date, whose only column is 'venta'
DolarTableOf(resp) ==
    /\ Len(requests) = 1
    /\ requests[1].url =
          "https://api.argentinadatos.com/v1//cotizaciones/dolares/" \o arg.symbol
    /\ DOMAIN requests[1].params = {}
    /\ ret.outcome = "return"
    /\ Len(ret.table) = Len(resp)
    /\ \A i \in 1..Len(resp) :
          /\ isoformat(ret.table[i].index) = resp[i].fecha
          /\ DOMAIN ret.table[i].columns = {"venta"}
          /\ ret.table[i].columns.venta = resp[i].venta

\* C8 as stated: for every response that is an array of records with 'fecha'
\* and 'venta', the empty array included.
C8_OneRowPerRecord ==
    (cls = "DolarPrices" /\ pc = "returned") => DolarTableOf(arg.resp)

\* C8 amended: for every non-empty array of such records the call issues one
\* GET without parameters and returns one row per record, in response order,
\* keyed by the record's date, with 'venta' as its only column; for the empty
\* array the call issues its GET and fails with KeyError.
C8_OneRowPerRecordNonEmpty ==
    (cls = "DolarPrices" /\ pc = "returned")
    => IF arg.resp # <<>> THEN DolarTableOf(arg.resp)
       ELSE /\ Len(requests) = 1
            /\ ret = [outcome |-> "raise", exc |-> "KeyError"]

C8_Witness ==
    /\ cls = "DolarPrices"
    /\ pc = "returned"
    /\ arg.symbol = "blue"
    /\ Len(arg.resp) = 3
    /\ arg.resp[1].compra # arg.resp[2].compra
    /\ arg.resp[2].fecha # arg.resp[3].fecha
    /\ ret.outcome = "return"
    /\ ret.table[1].index = Date(2024, 3, 1)
    /\ ret.table[1].columns.venta = 1005
    /\ ret.table[2].index = Date(2023, 12, 31)
    /\ ret.table[3].index = Date(2024, 2, 29)

====
